---- MODULE Spec2Model ----
(***************************************************************************)
(* Model of src/activation_server.py: the activation-code redemption       *)
(* server.  Two SQLite tables (activation_codes, device_activations) are   *)
(* shared by request handlers; every handler opens its own connection, so  *)
(* the handlers of different server workers interleave at the granularity  *)
(* of their SQL statements.  A handler's SELECTs run in autocommit mode;   *)
(* its UPDATE/INSERT statements up to commit() or rollback() form one      *)
(* SQLite write transaction, which SQLite serialises against every other   *)
(* write transaction and publishes atomically at commit.                   *)
(***************************************************************************)
EXTENDS Integers, Sequences, FiniteSets, TLC

(* ------------------------------ bounds --------------------------------- *)

\* Clock values run over 0..MaxTime (in ticks).
MaxTime == 3

\* Clock values run over 0..MaxConcurrentTime in a run in which several workers
\* serve requests at the same time.
MaxConcurrentTime == 1

\* Number of activate and verify requests the server receives in a run.
MaxRequests == 3

\* Number of activate and verify requests the server receives in a run in which
\* several workers serve requests at the same time.
MaxConcurrentRequests == 2

(* --------------------------- time and values --------------------------- *)

\* Clock ticks per day: timedelta(days=1) is TicksPerDay ticks.
TicksPerDay == 2

\* Python's None in an integer-valued field.
NoneInt == -1

\* Python's None in a string-valued field.
NoneStr == "None"

Devices == {"d1", "d2"}

Workers == {"w1", "w2"}

\* Largest number of rows of activation_codes, and largest "count" of a
\* generate-codes request: a single-use code for every device.
MaxCodes == Cardinality(Devices)

\* The license types of GenerateCodeRequest (line 86).
LicenseTypes == {"TRIAL_1D", "WEEK_7D", "MONTH_1M", "MONTH_3M", "LIFETIME"}

\* license_type values that requests of the model carry.
RequestTypes == {"TRIAL_1D", "LIFETIME", "BOGUS"}

\* The values secrets.token_hex(4) returns in the model.
RandomParts == {1, 2}

\* A code string "<prefix>_<random>" is the pair <<prefix, random>>.
IssuableCodes == (RequestTypes \cap LicenseTypes) \X RandomParts

\* The activation_code values that requests of the model carry: every code string
\* generate_codes can issue, and one string without a known prefix.
CodeStrings == IssuableCodes \cup {<<"UNKNOWN", 1>>}

\* datetime.isoformat(): the date part and the time-of-day part.
isoformat(t) == <<t \div TicksPerDay, t % TicksPerDay>>

\* datetime.fromisoformat()
fromisoformat(s) == s[1] * TicksPerDay + s[2]

\* timedelta(days=n)
timedelta(n) == n * TicksPerDay

\* Variant of timedelta_days that rounds the days up.
timedelta_days_ceil(a, b) == (a - b + TicksPerDay - 1) \div TicksPerDay

\* (a - b).days : whole days of a timedelta, rounded towards minus infinity.
timedelta_days(a, b) == (a - b) \div TicksPerDay

VARIABLES
    codes,          \* table activation_codes: code string -> row
    devices,        \* table device_activations: device_id -> row
    now,            \* the wall clock read by datetime.now() / CURRENT_TIMESTAMP
    pc,             \* per worker: position of the handler it runs
    request,        \* per worker: the request being handled
    code_record,    \* per worker: activate_device's code_record  (<<>> or <<row>>)
    device_record,  \* per worker: verify_device's device_record  (<<>> or <<row>>)
    resp,           \* the response the last step sent, with the request it answers
    received        \* number of activate and verify requests received so far

vars == <<codes, devices, now, pc, request, code_record, device_record, resp, received>>

(* ------------------------------ helpers -------------------------------- *)

generate_activation_code(license_type, random_part) ==
    LET prefix == IF license_type \in LicenseTypes THEN license_type ELSE "UNKNOWN"
    IN  <<prefix, random_part>>

get_duration_days(license_type) ==
    CASE license_type = "TRIAL_1D" -> 1
      [] license_type = "WEEK_7D"  -> 7
      [] license_type = "MONTH_1M" -> 30
      [] license_type = "MONTH_3M" -> 90
      [] license_type = "LIFETIME" -> 36500
      [] OTHER -> 0

calculate_expiry_date(duration_days, t) ==
    IF duration_days >= 36500
    THEN t + timedelta(36500)
    ELSE t + timedelta(duration_days)

\* Variant of HasKnownPrefix that accepts every code string.
HasAnyPrefix(c) == TRUE

\* request.activation_code.startswith((...))
HasKnownPrefix(c) == c[1] \in LicenseTypes

NoRequest == [op |-> "none", device_id |-> NoneStr, activation_code |-> <<NoneStr, 0>>]

\* The last step sent no response.
NoResponse == [request |-> NoRequest, kind |-> "none"]

\* ActivationResponse(success=False, message=...)
ActivationRejected(message) ==
    [kind |-> "activate", success |-> FALSE, message |-> message,
     license_type |-> NoneStr, expires_at |-> <<NoneInt, NoneInt>>,
     days_remaining |-> NoneInt]

\* ActivationResponse(success=True, ...)
ActivationGranted(license_type, expires_at, days) ==
    [kind |-> "activate", success |-> TRUE, message |-> "OK",
     license_type |-> license_type, expires_at |-> expires_at,
     days_remaining |-> days]

\* VerificationResponse(valid=False, is_trial=False)
VerificationInvalid ==
    [kind |-> "verify", valid |-> FALSE, license_type |-> NoneStr,
     expires_at |-> <<NoneInt, NoneInt>>, days_remaining |-> NoneInt,
     is_trial |-> FALSE]

\* VerificationResponse(valid=True, ...)
VerificationValid(license_type, expires_at, days, is_trial) ==
    [kind |-> "verify", valid |-> TRUE, license_type |-> license_type,
     expires_at |-> expires_at, days_remaining |-> days, is_trial |-> is_trial]

\* Row inserted by generate_codes; the other columns take the table's defaults.
\* The columns id, used_at, created_at and created_by, which no handler reads,
\* are left out.
NewCodeRow(code, license_type, duration_days, expires_at) ==
    [code |-> code, license_type |-> license_type, duration_days |-> duration_days,
     is_used |-> FALSE, used_by_device |-> NoneStr, expires_at |-> expires_at,
     max_uses |-> 1, current_uses |-> 0]

\* Row inserted by activate_device; the other columns take the table's defaults.
NewDeviceRow(device_id, code, license_type, expires_at, t) ==
    [device_id |-> device_id, activation_code |-> code, license_type |-> license_type,
     activated_at |-> t, expires_at |-> expires_at, last_seen |-> t,
     is_active |-> TRUE]

\* SELECT * FROM activation_codes WHERE code = ? AND is_used = FALSE ; fetchone()
SelectUnusedCode(c) ==
    IF c \in DOMAIN codes /\ ~codes[c].is_used THEN <<codes[c]>> ELSE <<>>

\* Variant of SelectActiveDevice without "AND is_active = TRUE".
SelectAnyDevice(d) ==
    IF d \in DOMAIN devices THEN <<devices[d]>> ELSE <<>>

\* SELECT * FROM device_activations WHERE device_id = ? AND is_active = TRUE ; fetchone()
SelectActiveDevice(d) ==
    IF d \in DOMAIN devices /\ devices[d].is_active THEN <<devices[d]>> ELSE <<>>

\* Variant of UpdateCodeUsed that leaves current_uses as it is.
UpdateCodeUsedFlagOnly(cs, c, d) ==
    IF c \in DOMAIN cs
    THEN [cs EXCEPT ![c] = [@ EXCEPT !.is_used = TRUE, !.used_by_device = d]]
    ELSE cs

\* UPDATE activation_codes SET is_used = TRUE, used_by_device = ?,
\*   used_at = CURRENT_TIMESTAMP, current_uses = current_uses + 1 WHERE code = ?
UpdateCodeUsed(cs, c, d) ==
    IF c \in DOMAIN cs
    THEN [cs EXCEPT ![c] = [@ EXCEPT !.is_used = TRUE, !.used_by_device = d,
                                     !.current_uses = @ + 1]]
    ELSE cs

\* Variant of CodeExpiredAt that also rejects a code at its expires_at exactly.
CodeExpiredFrom(rec, t) == fromisoformat(rec.expires_at) <= t

\* code_record['expires_at'] and fromisoformat(code_record['expires_at']) < now
\* (line 157); generate_codes gives every row an expires_at.
CodeExpiredAt(rec, t) == fromisoformat(rec.expires_at) < t

\* Variant of BindingExpiredAt that also expires a binding at its expires_at
\* exactly.
BindingExpiredFrom(expires_at, t) == expires_at <= t

\* expires_at < now (line 246)
BindingExpiredAt(expires_at, t) == expires_at < t

\* UPDATE device_activations SET is_active = FALSE WHERE device_id = ?
DeactivateDevice(ds, d) == [ds EXCEPT ![d].is_active = FALSE]

\* Variant of TouchDevice that also moves the deadline: a sliding expiry.
TouchDeviceSliding(ds, d, t) ==
    [ds EXCEPT ![d].last_seen = t, ![d].expires_at = isoformat(fromisoformat(@) + 1)]

\* UPDATE device_activations SET last_seen = CURRENT_TIMESTAMP WHERE device_id = ?
TouchDevice(ds, d, t) == [ds EXCEPT ![d].last_seen = t]

\* Variant of CodeUniqueViolated for a column code without UNIQUE.
CodeUniqueNotEnforced(cs, c) == FALSE

\* Variant of DeviceUniqueViolated for a column device_id without UNIQUE.
DeviceUniqueNotEnforced(ds, d) == FALSE

\* device_id TEXT UNIQUE NOT NULL: an INSERT for a device that has a row fails.
DeviceUniqueViolated(ds, d) == d \in DOMAIN ds

\* code TEXT UNIQUE NOT NULL: an INSERT of a code string that has a row fails.
CodeUniqueViolated(cs, c) == c \in DOMAIN cs

\* Variant of Rollback that keeps the transaction's changes.
RollbackKeepsPending(before, pending) == pending

\* conn.rollback(): the table as it was before the transaction's statements.
Rollback(before, pending) == before

Put(f, k, v) == [x \in DOMAIN f \cup {k} |-> IF x = k THEN v ELSE f[x]]

(* ------------------------------- Init ---------------------------------- *)

Init ==
    /\ codes = <<>>
    /\ devices = <<>>
    /\ now = 0
    /\ pc = [w \in Workers |-> "idle"]
    /\ request = [w \in Workers |-> NoRequest]
    /\ code_record = [w \in Workers |-> <<>>]
    /\ device_record = [w \in Workers |-> <<>>]
    /\ resp = NoResponse
    /\ received = 0

(* ------------------------------ clock ---------------------------------- *)

\* Time passes, up to the time max.
Tick(max) ==
    /\ now < max
    /\ now' = now + 1
    /\ resp' = NoResponse
    /\ UNCHANGED <<codes, devices, pc, request, code_record, device_record, received>>

\* datetime.now() is the local wall clock: it can be set back.
ClockSetBack ==
    /\ now > 0
    /\ now' = now - 1
    /\ resp' = NoResponse
    /\ UNCHANGED <<codes, devices, pc, request, code_record, device_record, received>>

(* --------------------------- activate_device --------------------------- *)

\* An activate or verify request arrives at an idle worker; max bounds the
\* number of these requests in a run.
Receive(w, max) ==
    /\ pc[w] = "idle"
    /\ received < max
    /\ received' = received + 1

\* A request of the administrator arrives at an idle worker.
ReceiveAdmin(w) ==
    /\ pc[w] = "idle"
    /\ UNCHANGED received

\* return <response>; finally: conn.close().  The response r goes out for the
\* request req, and the handler's locals are gone.
Finish(w, req, r) ==
    /\ pc' = [pc EXCEPT ![w] = "idle"]
    /\ resp' = [request |-> req] @@ r
    /\ request' = [request EXCEPT ![w] = NoRequest]
    /\ code_record' = [code_record EXCEPT ![w] = <<>>]
    /\ device_record' = [device_record EXCEPT ![w] = <<>>]

\* The handler goes on to its next statement.
Goto(w, req, label) ==
    /\ pc' = [pc EXCEPT ![w] = label]
    /\ request' = [request EXCEPT ![w] = req]
    /\ resp' = NoResponse

\* Lines 135-168: format check, code lookup, expiry check, quota check.
ActivateLookup(w, d, c, max) ==
    /\ Receive(w, max)
    /\ UNCHANGED <<codes, devices, now>>
    /\ LET req == [op |-> "activate", device_id |-> d, activation_code |-> c]
           found == SelectUnusedCode(c)
       IN  IF ~HasKnownPrefix(c)
           THEN Finish(w, req, ActivationRejected("MalformedCode"))
           ELSE IF found = <<>>
           THEN Finish(w, req, ActivationRejected("CodeNotFound"))
           ELSE IF CodeExpiredAt(found[1], now)
           THEN Finish(w, req, ActivationRejected("CodeExpired"))
           ELSE IF found[1].current_uses >= found[1].max_uses
           THEN Finish(w, req, ActivationRejected("QuotaExhausted"))
           ELSE /\ Goto(w, req, "act_device")
                /\ code_record' = [code_record EXCEPT ![w] = found]
                /\ UNCHANGED device_record

\* Lines 170-181: is the device already activated?
ActivateCheckDevice(w) ==
    /\ pc[w] = "act_device"
    /\ UNCHANGED <<codes, devices, now, received>>
    /\ IF SelectActiveDevice(request[w].device_id) # <<>>
       THEN Finish(w, request[w], ActivationRejected("DeviceAlreadyActive"))
       ELSE /\ Goto(w, request[w], "act_write")
            /\ UNCHANGED <<code_record, device_record>>

\* Lines 183-220: the write transaction (UPDATE, INSERT, commit / rollback).
ActivateWrite(w) ==
    /\ pc[w] = "act_write"
    /\ LET d == request[w].device_id
           c == request[w].activation_code
           rec == code_record[w][1]
           duration_days == rec.duration_days
           expires_at == calculate_expiry_date(duration_days, now)
           updated == UpdateCodeUsed(codes, c, d)
       IN  IF DeviceUniqueViolated(devices, d)
           THEN \* sqlite3.IntegrityError -> except: conn.rollback()
                /\ codes' = Rollback(codes, updated)
                /\ devices' = devices
                /\ Finish(w, request[w], ActivationRejected("Failed"))
           ELSE /\ codes' = updated
                /\ devices' = Put(devices, d,
                       NewDeviceRow(d, c, rec.license_type, isoformat(expires_at), now))
                /\ Finish(w, request[w],
                          ActivationGranted(rec.license_type,
                                            isoformat(expires_at), duration_days))
    /\ UNCHANGED <<now, received>>

(* ---------------------------- verify_device ---------------------------- *)

\* Lines 229-240: look the active binding up.
VerifySelect(w, d, max) ==
    /\ Receive(w, max)
    /\ UNCHANGED <<codes, devices, now>>
    /\ LET req == [op |-> "verify", device_id |-> d, activation_code |-> <<NoneStr, 0>>]
           found == SelectActiveDevice(d)
       IN  IF found = <<>>
           THEN Finish(w, req, VerificationInvalid)
           ELSE /\ Goto(w, req, "ver_check")
                /\ device_record' = [device_record EXCEPT ![w] = found]
                /\ UNCHANGED code_record

\* Lines 242-278: expiry check, then deactivate or touch.
VerifyCheck(w) ==
    /\ pc[w] = "ver_check"
    /\ LET d == request[w].device_id
           rec == device_record[w][1]
           expires_at == fromisoformat(rec.expires_at)
       IN  IF BindingExpiredAt(expires_at, now)
           THEN /\ devices' = DeactivateDevice(devices, d)
                /\ Finish(w, request[w], VerificationInvalid)
           ELSE /\ devices' = TouchDevice(devices, d, now)
                /\ Finish(w, request[w],
                          VerificationValid(rec.license_type, rec.expires_at,
                                            timedelta_days(expires_at, now),
                                            rec.license_type = "TRIAL_1D"))
    /\ UNCHANGED <<codes, now, received>>

(* ---------------------------- generate_codes --------------------------- *)

RECURSIVE InsertCodes(_, _, _, _, _)
\* The loop of lines 300-311 from its i-th round: [ok, table], where ok is FALSE
\* when an INSERT raised IntegrityError on UNIQUE(code), and table holds the
\* rows inserted up to there.
InsertCodes(cs, license_type, duration_days, rs, i) ==
    IF i > Len(rs) THEN [ok |-> TRUE, table |-> cs]
    ELSE LET code == generate_activation_code(license_type, rs[i])
             expires_at == calculate_expiry_date(duration_days, now)
         IN  IF CodeUniqueViolated(cs, code)
             THEN [ok |-> FALSE, table |-> cs]
             ELSE InsertCodes(Put(cs, code,
                                  NewCodeRow(code, license_type, duration_days,
                                             isoformat(expires_at))),
                              license_type, duration_days, rs, i + 1)

\* The list "codes" of line 299 after the loop.
GeneratedCodes(license_type, rs) ==
    [i \in 1..Len(rs) |-> generate_activation_code(license_type, rs[i])]

\* HTTPException(status_code=500, detail=...)
GenerateFailed(detail) ==
    [kind |-> "generate", status |-> 500, detail |-> detail, codes |-> <<>>]

\* Lines 288-327, one transaction.  rs: the values secrets.token_hex returns.
GenerateCodes(w, license_type, rs) ==
    /\ ReceiveAdmin(w)
    /\ Cardinality(DOMAIN codes) + Len(rs) <= MaxCodes
    /\ LET req == [op |-> "generate", device_id |-> NoneStr,
                   activation_code |-> <<license_type, Len(rs)>>]
           duration_days == get_duration_days(license_type)
           inserted == InsertCodes(codes, license_type, duration_days, rs, 1)
       IN  IF duration_days = 0
           THEN \* HTTPException(400) is raised inside the try block and caught by
                \* "except Exception", which rolls back and raises HTTPException(500).
                /\ codes' = codes
                /\ Finish(w, req, GenerateFailed("InvalidLicenseType"))
           ELSE IF ~inserted.ok
           THEN /\ codes' = Rollback(codes, inserted.table)
                /\ Finish(w, req, GenerateFailed("IntegrityError"))
           ELSE /\ codes' = inserted.table
                /\ Finish(w, req, [kind |-> "generate", status |-> 200, detail |-> "OK",
                                   codes |-> GeneratedCodes(license_type, rs)])
    /\ UNCHANGED <<devices, now>>

(* ----------------------------- get_statistics -------------------------- *)

\* Lines 329-365: per license type, counts of codes and of devices.
GetStatistics(w) ==
    /\ ReceiveAdmin(w)
    /\ LET req == [op |-> "stats", device_id |-> NoneStr,
                   activation_code |-> <<NoneStr, 0>>]
           ctypes == {codes[c].license_type : c \in DOMAIN codes}
           dtypes == {devices[d].license_type : d \in DOMAIN devices}
           code_statistics ==
               [t \in ctypes |->
                   [total  |-> Cardinality({c \in DOMAIN codes : codes[c].license_type = t}),
                    used   |-> Cardinality({c \in DOMAIN codes :
                                   codes[c].license_type = t /\ codes[c].is_used}),
                    unused |-> Cardinality({c \in DOMAIN codes :
                                   codes[c].license_type = t /\ ~codes[c].is_used})]]
           device_statistics ==
               [t \in dtypes |->
                   [total_devices  |-> Cardinality({d \in DOMAIN devices :
                                           devices[d].license_type = t}),
                    active_devices |-> Cardinality({d \in DOMAIN devices :
                                           devices[d].license_type = t /\ devices[d].is_active})]]
       IN  Finish(w, req, [kind |-> "stats", code_statistics |-> code_statistics,
                           device_statistics |-> device_statistics])
    /\ UNCHANGED <<codes, devices, now>>

(* -------------------------------- Next --------------------------------- *)

\* The values secrets.token_hex returns during one generate-codes request.
RandomSeqs == UNION {[1..n -> RandomParts] : n \in 1..MaxCodes}

\* The worker of W that takes the next request: an idle one, and which of the
\* idle ones is immaterial, the workers being alike.
Dispatch(W) ==
    LET idle == {w \in W : pc[w] = "idle"}
    IN  IF idle = {} THEN {} ELSE {CHOOSE w \in idle : TRUE}

\* The server as "python activation_server.py" starts it: uvicorn runs one event
\* loop, and a handler, which awaits nothing, runs to its end before the next
\* request is accepted.  The clock moves between and within the handlers.
Next ==
    \/ Tick(MaxTime)
    \/ \E w \in Dispatch({"w1"}), d \in Devices, c \in CodeStrings :
          ActivateLookup(w, d, c, MaxRequests)
    \/ \E w \in {"w1"} : ActivateCheckDevice(w)
    \/ \E w \in {"w1"} : ActivateWrite(w)
    \/ \E w \in Dispatch({"w1"}), d \in Devices : VerifySelect(w, d, MaxRequests)
    \/ \E w \in {"w1"} : VerifyCheck(w)
    \/ \E w \in Dispatch({"w1"}), t \in RequestTypes, rs \in RandomSeqs :
          GenerateCodes(w, t, rs)
    \/ \E w \in Dispatch({"w1"}) : GetStatistics(w)

Spec == Init /\ [][Next]_vars

\* The application served by several workers that share activation.db: their
\* handlers interleave statement by statement.
NextWorkers ==
    \/ Tick(MaxConcurrentTime)
    \/ \E w \in Dispatch(Workers), d \in Devices, c \in CodeStrings :
          ActivateLookup(w, d, c, MaxConcurrentRequests)
    \/ \E w \in Workers : ActivateCheckDevice(w)
    \/ \E w \in Workers : ActivateWrite(w)
    \/ \E w \in Dispatch(Workers), d \in Devices :
          VerifySelect(w, d, MaxConcurrentRequests)
    \/ \E w \in Workers : VerifyCheck(w)
    \/ \E w \in Dispatch(Workers), t \in RequestTypes, rs \in RandomSeqs :
          GenerateCodes(w, t, rs)
    \/ \E w \in Dispatch(Workers) : GetStatistics(w)

SpecWorkers == Init /\ [][NextWorkers]_vars

\* The single event loop again, with a wall clock that is also set back, and
\* requests of one device.
NextClock ==
    \/ Tick(MaxTime)
    \/ ClockSetBack
    \/ \E w \in Dispatch({"w1"}), c \in CodeStrings :
          ActivateLookup(w, "d1", c, MaxRequests)
    \/ \E w \in {"w1"} : ActivateCheckDevice(w)
    \/ \E w \in {"w1"} : ActivateWrite(w)
    \/ \E w \in Dispatch({"w1"}) : VerifySelect(w, "d1", MaxRequests)
    \/ \E w \in {"w1"} : VerifyCheck(w)
    \/ \E w \in Dispatch({"w1"}), t \in RequestTypes, rs \in RandomSeqs :
          GenerateCodes(w, t, rs)
    \/ \E w \in Dispatch({"w1"}) : GetStatistics(w)

SpecClock == Init /\ [][NextClock]_vars

\* The server started on an activation.db that already holds a code: the tables
\* are created IF NOT EXISTS (lines 29, 47), so the rows of the file stay.  The
\* row is a LIFETIME code issued at time 0 whose max_uses column (line 39) holds
\* two uses instead of the default.
InitExistingDb ==
    /\ codes = Put(<<>>, <<"LIFETIME", 1>>,
                   [NewCodeRow(<<"LIFETIME", 1>>, "LIFETIME", get_duration_days("LIFETIME"),
                               isoformat(calculate_expiry_date(
                                             get_duration_days("LIFETIME"), 0)))
                       EXCEPT !.max_uses = @ + 1])
    /\ devices = <<>>
    /\ now = 0
    /\ pc = [w \in Workers |-> "idle"]
    /\ request = [w \in Workers |-> NoRequest]
    /\ code_record = [w \in Workers |-> <<>>]
    /\ device_record = [w \in Workers |-> <<>>]
    /\ resp = NoResponse
    /\ received = 0

SpecExistingDb == InitExistingDb /\ [][Next]_vars

(* ------------------------- properties of steps ------------------------- *)

\* The step accepts an activate or verify request.
Called == received' # received

\* The step sends the response to an activate or verify request, which is resp'.
Replied ==
    \/ Called /\ pc' = pc
    \/ \E w \in Workers : pc[w] # "idle" /\ pc'[w] = "idle"

\* The activate or verify request that the step accepts, if Called.
Accepted ==
    IF Replied THEN resp'.request
    ELSE request'[CHOOSE w \in Workers : pc[w] = "idle" /\ pc'[w] # "idle"]

\* The step sends the response to an activate request.
ActivateReplied == Replied /\ resp'.kind = "activate"

\* The step sends the response to a verify request.
VerifyReplied == Replied /\ resp'.kind = "verify"

\* The step is a step of an activate handler.
ActivateStep ==
    \/ ActivateReplied
    \/ \E w \in Workers : pc'[w] \in {"act_device", "act_write"} /\ pc'[w] # pc[w]

StoresUnchanged == codes' = codes /\ devices' = devices

\* Device d has an active binding.
IsActive(d) == d \in DOMAIN devices /\ devices[d].is_active

\* The number of bindings made with code c.
BoundWith(c) == Cardinality({d \in DOMAIN devices : devices[d].activation_code = c})

(* -------------------------------- claims ------------------------------- *)

\* C1 (as claimed): with n = max_uses, activate attempts by distinct unbound
\* devices that are under way at the same time on a code inside its validity
\* window never make more than n bindings, and an attempt that is rejected while
\* another one is under way, the code's quota being used up, is rejected with
\* QuotaExhausted.
C1_ExactlyNSucceed ==
    [][ /\ \A c \in DOMAIN codes' : BoundWith(c)' <= codes'[c].max_uses
        /\ \A c \in DOMAIN codes :
              ( /\ ActivateReplied
                /\ ~resp'.success
                /\ resp'.request.activation_code = c
                /\ resp'.request.device_id \notin DOMAIN devices
                /\ \E w \in Workers :
                      /\ pc[w] # "idle" /\ pc'[w] = pc[w]
                      /\ request[w].op = "activate"
                      /\ request[w].activation_code = c
                      /\ request[w].device_id # resp'.request.device_id
                /\ codes[c].current_uses >= codes[c].max_uses
                /\ now <= fromisoformat(codes[c].expires_at) )
              => resp'.message = "QuotaExhausted" ]_vars

\* C2 (as claimed): every code has 0 <= current_uses <= max_uses in every
\* reachable state, and no step decreases a code's current_uses.
C2_QuotaInvariant ==
    [][ /\ \A c \in DOMAIN codes' :
              0 <= codes'[c].current_uses /\ codes'[c].current_uses <= codes'[c].max_uses
        /\ \A c \in DOMAIN codes :
              c \in DOMAIN codes' /\ codes'[c].current_uses >= codes[c].current_uses ]_vars

\* C3 (as claimed): an activate request of a device with an active binding,
\* with any code string that has a known prefix, is answered DeviceAlreadyActive
\* and changes neither table.
C3_ActiveDeviceRejected ==
    [][ ( /\ ActivateReplied
          /\ IsActive(resp'.request.device_id)
          /\ HasKnownPrefix(resp'.request.activation_code) )
        => (resp'.message = "DeviceAlreadyActive" /\ StoresUnchanged) ]_vars

\* C4 (as claimed): the write step of an activate request of a device whose
\* binding verify has deactivated, with a code found unused, unexpired and within
\* quota, succeeds and leaves the device with an active binding to the new code
\* that expires duration_days after the redemption.
C4_RebindAfterExpiry ==
    [][ \A w \in Workers :
          ( /\ pc[w] = "act_write" /\ pc'[w] = "idle"
            /\ request[w].device_id \in DOMAIN devices
            /\ ~devices[request[w].device_id].is_active )
          => LET d == request[w].device_id
                 c == request[w].activation_code
             IN  /\ resp'.success
                 /\ devices'[d].is_active
                 /\ devices'[d].activation_code = c
                 /\ fromisoformat(devices'[d].expires_at)
                        = now + timedelta(codes[c].duration_days) ]_vars

\* A response that answers an activate request "failed" after the binding's
\* INSERT was refused, while the request's code is still unused.
C4_RebindRefused ==
    /\ resp.kind = "activate"
    /\ resp.message = "Failed"
    /\ resp.request.device_id \in DOMAIN devices
    /\ ~devices[resp.request.device_id].is_active
    /\ resp.request.activation_code \in DOMAIN codes
    /\ codes[resp.request.activation_code].current_uses = 0

\* C5: every step of an activate handler other than the one that answers with
\* success leaves activation_codes and device_activations unchanged; in
\* particular when the INSERT of the binding fails after the UPDATE of the code.
C5_FailedActivateChangesNothing ==
    [][ (ActivateStep /\ ~(ActivateReplied /\ resp'.success)) => StoresUnchanged ]_vars

\* C5 witness: an activate request was answered "failed" (the INSERT was refused
\* after the UPDATE) and its code is unused.
C5_Witness ==
    /\ resp.kind = "activate"
    /\ resp.message = "Failed"
    /\ resp.request.activation_code \in DOMAIN codes
    /\ codes[resp.request.activation_code].current_uses = 0
    /\ ~codes[resp.request.activation_code].is_used

\* C6: under every interleaving, a code that is marked used by device d is the
\* code of d's one binding: of two concurrent activate requests of d with
\* different codes at most one takes effect, and the other's code stays unused.
C6_OneCodePerDevice ==
    /\ \A c \in DOMAIN codes :
          codes[c].used_by_device # NoneStr =>
              /\ codes[c].used_by_device \in DOMAIN devices
              /\ devices[codes[c].used_by_device].activation_code = c
    /\ ( resp.kind = "activate" /\ resp.success ) =>
          /\ resp.request.device_id \in DOMAIN devices
          /\ devices[resp.request.device_id].activation_code = resp.request.activation_code
    /\ ( resp.kind = "activate" /\ resp.message = "Failed" ) =>
          /\ resp.request.device_id \in DOMAIN devices
          /\ \/ devices[resp.request.device_id].activation_code = resp.request.activation_code
             \/ codes[resp.request.activation_code].used_by_device # resp.request.device_id

\* C6 witness: device d is bound with one code, and its concurrent activate
\* request with another code was answered "failed", that code being unused.
C6_Witness ==
    /\ resp.kind = "activate"
    /\ resp.message = "Failed"
    /\ resp.request.device_id \in DOMAIN devices
    /\ devices[resp.request.device_id].is_active
    /\ devices[resp.request.device_id].activation_code # resp.request.activation_code
    /\ codes[resp.request.activation_code].current_uses = 0
    /\ ~codes[resp.request.activation_code].is_used

\* C7: a verify that observes now > expires_at deactivates the binding, no step
\* activates it again, and every verify of a device whose binding is inactive
\* answers invalid whatever the clock shows, also when now <= expires_at.
C7_ExpiryIsSticky ==
    [][ /\ \A w \in Workers :
              ( /\ pc[w] = "ver_check" /\ pc'[w] = "idle"
                /\ now > fromisoformat(device_record[w][1].expires_at) )
              => (~resp'.valid /\ ~devices'[request[w].device_id].is_active)
        /\ \A d \in DOMAIN devices :
              ~devices[d].is_active => (d \in DOMAIN devices' /\ ~devices'[d].is_active)
        /\ ( /\ VerifyReplied
             /\ resp'.request.device_id \in DOMAIN devices
             /\ ~devices[resp'.request.device_id].is_active )
           => ~resp'.valid ]_vars

\* C7 witness: a verify of a device with an inactive binding was answered invalid
\* at a time that is not after the binding's expires_at.
C7_Witness ==
    /\ resp.kind = "verify"
    /\ ~resp.valid
    /\ resp.request.device_id \in DOMAIN devices
    /\ ~devices[resp.request.device_id].is_active
    /\ now <= fromisoformat(devices[resp.request.device_id].expires_at)
    /\ received = MaxRequests

\* C8: a verify of a device bound at time T with a code of duration_days D that
\* reads the clock at T + e, 0 <= e <= D days, answers valid with the code's
\* license_type, days_remaining = floor(D - e) and is_trial = (type is TRIAL_1D);
\* e = 0 gives D, and a LIFETIME binding read one day later gives 36499.
C8_VerifyAfterActivate ==
    [][ \A d \in DOMAIN devices :
          LET b == devices[d]
              D == codes[b.activation_code].duration_days
              e == now - b.activated_at
          IN  ( /\ VerifyReplied
                /\ resp'.request.device_id = d
                /\ 0 <= e /\ e <= timedelta(D) )
              => /\ resp'.valid
                 /\ resp'.license_type = codes[b.activation_code].license_type
                 /\ resp'.days_remaining = (timedelta(D) - e) \div TicksPerDay
                 /\ resp'.is_trial = (codes[b.activation_code].license_type = "TRIAL_1D")
                 /\ (e = 0 => resp'.days_remaining = D)
                 /\ (D = 36500 /\ e = timedelta(1) => resp'.days_remaining = 36499) ]_vars

\* C8 witness: a LIFETIME binding verified exactly one day after its activation,
\* answered valid with 36499 days remaining.
C8_Witness ==
    /\ resp.kind = "verify"
    /\ resp.valid
    /\ resp.license_type = "LIFETIME"
    /\ resp.days_remaining = 36499
    /\ now = devices[resp.request.device_id].activated_at + timedelta(1)

\* C9 (as claimed): an activate request of an unbound device with a single-use
\* code that another device has redeemed is answered QuotaExhausted and changes
\* neither table.
C9_UsedCodeQuotaExhausted ==
    [][ \A c \in DOMAIN codes :
          ( /\ ActivateReplied
            /\ resp'.request.activation_code = c
            /\ resp'.request.device_id \notin DOMAIN devices
            /\ codes[c].max_uses = 1
            /\ codes[c].current_uses >= 1
            /\ codes[c].used_by_device # resp'.request.device_id )
          => (resp'.message = "QuotaExhausted" /\ StoresUnchanged) ]_vars

\* C10 (as claimed): for an activate request of an unbound device with a code
\* string of known prefix, a code that does not exist is answered CodeNotFound,
\* and a code that exists, is past its expires_at and has current_uses >=
\* max_uses is answered CodeExpired.
C10_RejectionPriority ==
    [][ ( /\ ActivateReplied /\ Called
          /\ HasKnownPrefix(resp'.request.activation_code)
          /\ resp'.request.device_id \notin DOMAIN devices )
        => LET c == resp'.request.activation_code
           IN  /\ c \notin DOMAIN codes => resp'.message = "CodeNotFound"
               /\ ( /\ c \in DOMAIN codes
                    /\ now > fromisoformat(codes[c].expires_at)
                    /\ codes[c].current_uses >= codes[c].max_uses )
                  => resp'.message = "CodeExpired" ]_vars

\* C11: a binding is created with expires_at = the redemption time plus the
\* redeemed code's duration_days, and no step (a verify that touches, a verify
\* that deactivates, a rejected activate of the same device, or any other) changes
\* the expires_at, activated_at, activation_code or license_type of a binding.
C11_BindingDeadlineFixed ==
    [][ /\ \A d \in DOMAIN devices :
              /\ d \in DOMAIN devices'
              /\ devices'[d].expires_at = devices[d].expires_at
              /\ devices'[d].activated_at = devices[d].activated_at
              /\ devices'[d].activation_code = devices[d].activation_code
              /\ devices'[d].license_type = devices[d].license_type
        /\ \A d \in DOMAIN devices' \ DOMAIN devices :
              LET b == devices'[d]
              IN  /\ b.activation_code \in DOMAIN codes
                  /\ b.activated_at = now
                  /\ fromisoformat(b.expires_at)
                         = now + timedelta(codes[b.activation_code].duration_days)
                  /\ b.license_type = codes[b.activation_code].license_type ]_vars

\* C11 witness: a verify later than the activation has touched a binding, whose
\* deadline is still its activation time plus its code's duration_days.
C11_Witness ==
    /\ resp.kind = "verify"
    /\ resp.valid
    /\ LET b == devices[resp.request.device_id]
       IN  /\ b.last_seen > b.activated_at
           /\ fromisoformat(b.expires_at)
                  = b.activated_at + timedelta(codes[b.activation_code].duration_days)

C14_MalformedCodeFirst ==
    [][ ( /\ ActivateReplied
          /\ resp'.request.activation_code[1] \notin LicenseTypes )
        => /\ Called
           /\ resp'.message = "MalformedCode"
           /\ ~resp'.success
           /\ StoresUnchanged ]_vars

\* C14 witness: a device with an active binding was answered MalformedCode.
C14_Witness ==
    /\ resp.kind = "activate"
    /\ resp.message = "MalformedCode"
    /\ IsActive(resp.request.device_id)

\* C15 (as claimed): every verify of a device that has a binding leaves the
\* binding's last_seen at the time of the call, also a verify that answers
\* invalid because the binding is inactive or is seen past its expires_at.
C15_VerifyAlwaysTouches ==
    [][ ( VerifyReplied /\ resp'.request.device_id \in DOMAIN devices )
        => devices'[resp'.request.device_id].last_seen = now ]_vars

\* C16: verify always answers with a VerificationResponse; for a device without
\* a binding, or with an inactive binding, the answer is valid = FALSE with
\* is_trial = FALSE, no binding is created, and activation_codes and every
\* binding, that of the device included, stay as they are.
C16_VerifyUnboundIsInvalid ==
    [][ /\ VerifyReplied => resp'.valid \in BOOLEAN
        /\ ( /\ VerifyReplied
             /\ \/ resp'.request.device_id \notin DOMAIN devices
                \/ ~devices[resp'.request.device_id].is_active )
           => /\ ~resp'.valid
              /\ ~resp'.is_trial
              /\ DOMAIN devices' = DOMAIN devices
              /\ StoresUnchanged ]_vars

\* C16 witness: a verify of a device without a binding was answered invalid, the
\* device still has no binding, and the code issued before is still unused.
C16_Witness ==
    /\ resp.kind = "verify"
    /\ ~resp.valid
    /\ ~resp.is_trial
    /\ resp.request.device_id \notin DOMAIN devices
    /\ \E c \in DOMAIN codes : ~codes[c].is_used

C18_CodeValidityWindow ==
    [][ /\ \A c \in DOMAIN codes' \ DOMAIN codes :
              fromisoformat(codes'[c].expires_at) = now + timedelta(codes'[c].duration_days)
        /\ \A c \in DOMAIN codes :
              ( /\ Called
                /\ Accepted.op = "activate"
                /\ Accepted.activation_code = c
                /\ Accepted.device_id \notin DOMAIN devices
                /\ ~codes[c].is_used )
              => IF now > fromisoformat(codes[c].expires_at)
                 THEN /\ ActivateReplied
                      /\ resp'.message = "CodeExpired"
                      /\ StoresUnchanged
                 ELSE ~Replied
        /\ \A w \in Workers :
              ( /\ pc[w] \in {"act_device", "act_write"} /\ pc'[w] = "idle"
                /\ request[w].device_id \notin DOMAIN devices )
              => (ActivateReplied /\ resp'.success) ]_vars

\* C18 witness: an activate has succeeded with the clock exactly at its code's
\* expires_at.
C18_Witness ==
    /\ resp.kind = "activate"
    /\ resp.success
    /\ devices[resp.request.device_id].activated_at
           = fromisoformat(codes[resp.request.activation_code].expires_at)

\* C19: in every reachable state, under every interleaving of the handlers, a
\* code's current_uses is the number of bindings made with that code, and every
\* binding's code is a row of activation_codes: a use is counted if and only if
\* its binding is created in the same transaction.
C19_UsesMatchBindings ==
    /\ \A c \in DOMAIN codes : codes[c].current_uses = BoundWith(c)
    /\ \A d \in DOMAIN devices : devices[d].activation_code \in DOMAIN codes

\* C19 witness: two handlers that overlapped have redeemed one code for two
\* devices, and the code counts two uses.
C19_Witness ==
    \E c \in DOMAIN codes :
        /\ codes[c].current_uses = Cardinality(Devices)
        /\ BoundWith(c) = Cardinality(Devices)

\* C20 (as claimed): a generate-codes request whose license_type is not one of
\* the five license types fails with the validation error for the license type,
\* status 400, not with the status 500 of a storage failure, and adds no code;
\* and a generate-codes request that fails, part-way through its batch included,
\* adds no code.
C20_InvalidKindIsValidationError ==
    [][ /\ ( /\ resp'.kind = "generate"
             /\ resp'.request.activation_code[1] \notin LicenseTypes )
           => /\ resp'.status = 400
              /\ resp'.detail = "InvalidLicenseType"
              /\ codes' = codes
        /\ ( resp'.kind = "generate" /\ resp'.status # 200 ) => codes' = codes ]_vars

====
